---- MODULE Spec2Model ----
(***************************************************************************)
(* Predictor proxy + cache layer of server.js: the in-memory TTL cache,    *)
(* verifyJWT, fetchPredictorMatch, the two GET /api/predictions            *)
(* registrations and GET /api/prediction/:matchId.                         *)
(*                                                                         *)
(* Node runs each callback to completion, so one action is one turn of the *)
(* event loop: the synchronous part of a handler up to its first pending   *)
(* await, or one I/O completion together with the promise continuations    *)
(* it unblocks.  Time is in whole seconds.                                 *)
(***************************************************************************)
EXTENDS Integers, Sequences, FiniteSets, TLC

VARIABLES
    now,        \* Date.now(), in seconds
    cache,      \* the Map `cache`: key -> [ts, ttlSec, value]
    req,        \* request slot -> the request, its fetchPredictorMatch calls, its response
    nreq,       \* number of requests received so far
    upstream,   \* requests sent to the predictor: what fetch() was called with
    cacheLog,   \* which request called getCache / setCache / cache.delete, on which key
    apiKey,     \* PREDICTOR_API_KEY is a non-empty string
    lookup      \* the last call of getCache made on the cache directly

vars == <<now, cache, req, nreq, upstream, cacheLog, apiKey, lookup>>

----------------------------------------------------------------------------
(* Bounds of the model. *)

MaxRequests == 2
MaxClock == 3
MaxTtl == 2

(* Program constants. *)

FetchTimeoutSec == 5
FetchTtlSec == 20

----------------------------------------------------------------------------
(* JSON / JavaScript values.  Every value is a record of the same shape so *)
(* that any two can be compared: type, a literal, and the items of an      *)
(* array or the members of an object.                                      *)

JVal(t, l, i) == [type |-> t, lit |-> l, items |-> i]
JNull == JVal("null", "null", <<>>)
JUndefined == JVal("undefined", "undefined", <<>>)
JBool(b) == JVal("boolean", IF b THEN "true" ELSE "false", <<>>)
JNum(l) == JVal("number", l, <<>>)
JStr(l) == JVal("string", l, <<>>)
JArray(s) == JVal("array", "", s)
JMember(name, v) == JVal("member", name, <<v>>)
JObj(members) == JVal("object", "", members)

\* JavaScript ToBoolean, as used by `if (x)` and `!x`
Truthy(v) ==
    CASE v.type \in {"null", "undefined"} -> FALSE
      [] v.type = "boolean" -> v.lit = "true"
      [] v.type = "number" -> v.lit \notin {"0", "-0", "NaN"}
      [] v.type = "string" -> v.lit # ""
      [] OTHER -> TRUE

\* property access obj.name: undefined when the object has no such member
GetProp(v, name) ==
    IF v.type = "object" /\ \E i \in 1..Len(v.items) : v.items[i].lit = name
    THEN LET i == CHOOSE i \in 1..Len(v.items) : v.items[i].lit = name
         IN v.items[i].items[1]
    ELSE JUndefined

HasProp(v, name) ==
    v.type = "object" /\ \E i \in 1..Len(v.items) : v.items[i].lit = name

\* the bodies the predictor may send with a success status
PickHome == JObj(<<JMember("pick", JStr("Home"))>>)
PickAway == JObj(<<JMember("pick", JStr("Away"))>>)
Payloads == {JNull, JBool(FALSE), PickHome, PickAway}

\* new Date().toISOString() and its first ten characters (the day)
ToISOString(t) == ToString(t)
ISODay(t) == ToString(t \div 86400)

----------------------------------------------------------------------------
(* Configuration: lines 134-136. *)

PREDICTOR_MATCH_IDS == << <<"m1">>, <<"m2">> >>

\* match ids a client may put in the path of /api/prediction/:matchId
RequestMatchIds == { <<"m1">>, <<"x9">> }

----------------------------------------------------------------------------
(* Cache: lines 139-151. *)

\* the age test with >= for >
Fresh_AtTtlExpired(entry, t) == ~((t - entry.ts) >= entry.ttlSec)

Fresh(entry, t) == ~((t - entry.ts) > entry.ttlSec)

\* a write that leaves an existing entry alone
setCache_FirstWins(c, key, value, ttlSec, t) ==
    IF key \in DOMAIN c THEN c
    ELSE [k \in DOMAIN c \cup {key} |->
            IF k = key THEN [ts |-> t, ttlSec |-> ttlSec, value |-> value] ELSE c[k]]

\* a write to an existing key that keeps the old timestamp
setCache_KeepTimestamp(c, key, value, ttlSec, t) ==
    [k \in DOMAIN c \cup {key} |->
        IF k = key
        THEN [ts |-> IF key \in DOMAIN c THEN c[key].ts ELSE t,
              ttlSec |-> ttlSec, value |-> value]
        ELSE c[k]]

setCache(c, key, value, ttlSec, t) ==
    [k \in DOMAIN c \cup {key} |->
        IF k = key THEN [ts |-> t, ttlSec |-> ttlSec, value |-> value] ELSE c[k]]

\* a lookup that does not see an entry written at this very instant
getCacheValue_MissesNewWrite(c, key, t) ==
    IF key \notin DOMAIN c THEN JNull
    ELSE IF ~Fresh(c[key], t) \/ c[key].ts = t THEN JNull
    ELSE c[key].value

\* the value getCache returns
getCacheValue(c, key, t) ==
    IF key \notin DOMAIN c THEN JNull
    ELSE IF ~Fresh(c[key], t) THEN JNull
    ELSE c[key].value

\* a lookup that removes the entry whether or not it has expired
getCacheStore_DropsFresh(c, key, t) == [k \in DOMAIN c \ {key} |-> c[k]]

\* the cache getCache leaves behind
getCacheStore(c, key, t) ==
    IF key \in DOMAIN c /\ ~Fresh(c[key], t)
    THEN [k \in DOMAIN c \ {key} |-> c[k]]
    ELSE c

\* a key that marks detail only when it is set
cacheKey_TrueOnly(matchId, detail) ==
    <<"predictor", ":">> \o matchId
        \o (IF detail THEN <<":", "detail", "=", "true">> ELSE <<>>)

\* `predictor:${matchId}:detail=${detail}`
cacheKey(matchId, detail) ==
    <<"predictor", ":">> \o matchId \o <<":", "detail", "=">>
        \o <<IF detail THEN "true" ELSE "false">>

----------------------------------------------------------------------------
(* Credentials: verifyJWT, lines 154-162.  An Authorization header is a    *)
(* sequence of tokens: an optional scheme word, white space, a JWT.  The   *)
(* empty sequence is the missing header (`req.headers.authorization || ''`)*)

ClaimsSubscribed == JObj(<<JMember("sub", JStr("u1")), JMember("subscribed", JBool(TRUE))>>)
ClaimsUnsubscribed == JObj(<<JMember("sub", JStr("u2")), JMember("subscribed", JBool(FALSE))>>)
ClaimsNoTier == JObj(<<JMember("sub", JStr("u3"))>>)

\* jwt.verify(token, secret): the claims of a well-formed, unexpired token
\* signed with the secret; it throws on every other token
JwtVerifyOk(token) == token \in {"jwt_sub", "jwt_unsub", "jwt_notier"}
JwtVerifyPayload(token) ==
    CASE token = "jwt_sub" -> ClaimsSubscribed
      [] token = "jwt_unsub" -> ClaimsUnsubscribed
      [] OTHER -> ClaimsNoTier

\* String.prototype.toLowerCase on the words a request may carry
ToLowerCase(s) ==
    CASE s \in {"Bearer", "BEARER"} -> "bearer"
      [] s \in {"TRUE", "True"} -> "true"
      [] OTHER -> s

RECURSIVE DropSpaces(_)
DropSpaces(h) == IF h # <<>> /\ Head(h) = " " THEN DropSpaces(Tail(h)) ELSE h

\* token.replace(/^Bearer\s+/i, '')
StripBearer(h) ==
    IF Len(h) >= 2 /\ ToLowerCase(h[1]) = "bearer" /\ h[2] = " "
    THEN DropSpaces(Tail(h))
    ELSE h

\* a verification that does not look at the expiry of the token
verifyJWT_IgnoreExpiry(header) ==
    IF header = <<>> THEN JNull
    ELSE LET t == StripBearer(header)
         IN IF Len(t) = 1 /\ (JwtVerifyOk(t[1]) \/ t[1] = "jwt_expired")
            THEN JwtVerifyPayload(t[1])
            ELSE JNull

verifyJWT(header) ==
    IF header = <<>> THEN JNull
    ELSE LET t == StripBearer(header)
         IN IF Len(t) = 1 /\ JwtVerifyOk(t[1]) THEN JwtVerifyPayload(t[1]) ELSE JNull

AuthHeaders ==
    { <<>>,
      <<"Bearer", " ", "garbage">>,
      <<"Bearer", " ", "jwt_expired">>,
      <<"Bearer", " ", "jwt_badsig">>,
      <<"Bearer", " ", "jwt_unsub">>,
      <<"Bearer", " ", "jwt_notier">>,
      <<"bearer", " ", " ", "jwt_sub">> }

\* the headers tried on requests that do not ask for detail
PublicAuthHeaders == { <<>>, <<"jwt_sub">> }

\* values of req.query.detail: absent, a string, or an array (detail given twice)
DetailQueries ==
    { JUndefined, JStr("true"), JStr("TRUE"), JStr("false"),
      JArray(<<JStr("true"), JStr("true")>>) }

----------------------------------------------------------------------------
(* Response bodies. *)

ErrUnauthorized == JObj(<<JMember("error", JStr("Missing or invalid token for detailed analysis"))>>)
Teaser == JObj(<<JMember("teaser", JStr("Full analysis available for VIPs. Start a trial for R199/month."))>>)
ErrUnavailable == JObj(<<JMember("error", JStr("Prediction service unavailable"))>>)
ErrServer == JObj(<<JMember("error", JStr("Server error"))>>)

\* lines 30-35
SampleItem(id, match, pick, market, rationale, confidence, t) ==
    JObj(<<JMember("id", JNum(id)), JMember("match", JStr(match)),
           JMember("date", JStr(ISODay(t))), JMember("pick", JStr(pick)),
           JMember("market", JStr(market)), JMember("rationale", JStr(rationale)),
           JMember("confidence", JNum(confidence))>>)

Sample(t) ==
    JArray(<<SampleItem("1", "Switzerland vs Sweden", "Switzerland to win", "1", "Home advantage", "52", t),
             SampleItem("2", "Georgia vs Spain", "Over 2.5", "Over 2.5", "Spain attack", "65", t),
             SampleItem("3", "Belgium vs Kazakhstan", "Belgium -1", "AH -1", "Strong away side", "70", t)>>)

\* lines 213-216
FallbackItem(id, match, pick, confidence, t) ==
    JObj(<<JMember("id", JNum(id)), JMember("match", JStr(match)),
           JMember("pick", JStr(pick)), JMember("date", JStr(ToISOString(t))),
           JMember("confidence", JNum(confidence))>>)

Fallback(t) ==
    JArray(<<FallbackItem("1", "Demo: Switzerland vs Sweden", "Switzerland to win", "0.52", t),
             FallbackItem("2", "Demo: Georgia vs Spain", "Over 2.5", "0.65", t)>>)

----------------------------------------------------------------------------
(* Route table: app.get / app.post in registration order.  Express runs    *)
(* the first handler whose method and path match; none of these handlers   *)
(* calls next(), so a later registration of the same route never runs.     *)

RouteTable ==
    << [method |-> "GET",  path |-> "/api/predictions",         handler |-> "sample"],
       [method |-> "POST", path |-> "/api/create-payfast",      handler |-> "createPayfast"],
       [method |-> "POST", path |-> "/api/payfast-webhook",     handler |-> "payfastWebhook"],
       [method |-> "GET",  path |-> "/api/predictions",         handler |-> "aggregator"],
       [method |-> "GET",  path |-> "/api/prediction/:matchId", handler |-> "singleMatch"] >>

Dispatch(method, path) ==
    LET hits == {i \in 1..Len(RouteTable) :
                    RouteTable[i].method = method /\ RouteTable[i].path = path}
    IN RouteTable[CHOOSE i \in hits : \A j \in hits : i <= j].handler

----------------------------------------------------------------------------
(* fetchPredictorMatch: lines 165-197.  A call is at `await fetch` (pc =   *)
(* "fetch", the abort timer armed), at `await resp.json()` (pc = "json",   *)
(* the timer cleared on line 183) or has returned (pc = "done").           *)

\* lines 166-168 and 179-182: the part of a call that runs before it first waits
CallStart(c, matchId, detail, forwardApiKey, t) ==
    LET cached == getCacheValue(c, cacheKey(matchId, detail), t)
    IN [matchId |-> matchId, detail |-> detail, forwardApiKey |-> forwardApiKey,
        cached |-> cached,
        pc |-> IF Truthy(cached) THEN "done" ELSE "fetch",
        hit |-> Truthy(cached),
        outcome |-> IF Truthy(cached) THEN "hit" ELSE "pending",
        timer |-> ~Truthy(cached),
        issuedAt |-> t,
        result |-> IF Truthy(cached) THEN cached ELSE JNull]

\* the header set whenever a key is configured
XApiKeyHeader_IgnoreFlag(forwardApiKey, key) == key

\* lines 174-176: the x-api-key header is set
XApiKeyHeader(forwardApiKey, key) == forwardApiKey /\ key

\* line 182: what fetch() is called with
UpstreamRequest(r, i, call, key) ==
    [req |-> r, idx |-> i, matchId |-> call.matchId, detail |-> call.detail,
     xApiKey |-> XApiKeyHeader(call.forwardApiKey, key)]

\* a non-success status handed to the caller as an error object
CallOnStatus_ErrorObject(call, ok) ==
    IF ok THEN [call EXCEPT !.timer = FALSE, !.pc = "json"]
    ELSE [call EXCEPT !.timer = FALSE, !.pc = "done", !.outcome = "failed",
                      !.result = JObj(<<JMember("error", JStr("status"))>>)]

\* lines 184-187: the response status arrives
CallOnStatus(call, ok) ==
    IF ok THEN [call EXCEPT !.timer = FALSE, !.pc = "json"]
    ELSE [call EXCEPT !.timer = FALSE, !.pc = "done", !.result = JNull, !.outcome = "failed"]

\* lines 192-195: fetch or resp.json() rejected (a transport error, the
\* abort, a body that does not decode)
CallOnError(call) ==
    [call EXCEPT !.timer = FALSE, !.pc = "done", !.result = JNull, !.outcome = "failed"]

\* lines 188-191: the body was read and decoded
CallOnJson(call, json) == [call EXCEPT !.pc = "done", !.result = json, !.outcome = "ok"]

----------------------------------------------------------------------------
(* Requests and responses. *)

NoRequest ==
    [kind |-> "none", matchId |-> <<>>, detail |-> FALSE, auth |-> <<>>,
     calls |-> <<>>, sent |-> 0, status |-> 0, body |-> JNull]

\* res.status(status).json(body)
Respond(rq, status, body) ==
    [rq EXCEPT !.sent = @ + 1, !.status = status, !.body = body]

\* lines 252-255
SingleMatchFinish(rq) ==
    LET predictorResp == rq.calls[1].result
    IN IF ~Truthy(predictorResp)
       THEN Respond(rq, 502, ErrUnavailable)
       ELSE Respond(rq, 200, predictorResp)

\* a filter that hands the kept items back last first
RECURSIVE FilterNotNull_Reversed(_)
FilterNotNull_Reversed(results) ==
    IF results = <<>> THEN <<>>
    ELSE IF Head(results) # JNull
         THEN FilterNotNull_Reversed(Tail(results)) \o <<Head(results)>>
         ELSE FilterNotNull_Reversed(Tail(results))

\* line 210: results.filter(r => r !== null)
RECURSIVE FilterNotNull(_)
FilterNotNull(results) ==
    IF results = <<>> THEN <<>>
    ELSE IF Head(results) # JNull
         THEN <<Head(results)>> \o FilterNotNull(Tail(results))
         ELSE FilterNotNull(Tail(results))

Results(rq) == [i \in 1..Len(rq.calls) |-> rq.calls[i].result]

\* the cleaned list sent even when it is empty
AggregatorFinish_NoFallback(rq, t) ==
    Respond(rq, 200, JArray(FilterNotNull(Results(rq))))

\* lines 210-218
AggregatorFinish(rq, t) ==
    LET cleaned == FilterNotNull(Results(rq))
    IN IF Len(cleaned) = 0
       THEN Respond(rq, 200, Fallback(t))
       ELSE Respond(rq, 200, JArray(cleaned))

\* a wait that ends when the first call returns
AllSettled_First(calls) == \E i \in 1..Len(calls) : calls[i].pc = "done"

AllSettled(calls) == \A i \in 1..Len(calls) : calls[i].pc = "done"

\* the continuation of the handler that awaits the call: the single-match
\* handler resumes when its call returns, the aggregator when Promise.all
\* resolves, which is when the last of its calls returns
Resume(rq, t) ==
    IF ~AllSettled(rq.calls) THEN rq
    ELSE IF rq.kind = "single" THEN SingleMatchFinish(rq)
    ELSE AggregatorFinish(rq, t)

----------------------------------------------------------------------------
NoLookup ==
    [done |-> FALSE, key |-> <<>>, at |-> 0, had |-> FALSE,
     entry |-> [ts |-> 0, ttlSec |-> 0, value |-> JNull],
     result |-> JNull, kept |-> FALSE]

Init ==
    /\ now = 0
    /\ cache = <<>>
    /\ req = [r \in 1..MaxRequests |-> NoRequest]
    /\ nreq = 0
    /\ upstream = {}
    /\ cacheLog = {}
    /\ apiKey \in BOOLEAN
    /\ lookup = NoLookup

\* line 234: (req.query.detail || 'false').toLowerCase() === 'true'; an
\* array has no toLowerCase, and the call throws a TypeError
DetailThrows(q) == Truthy(q) /\ q.type # "string"
DetailFlag(q) == ToLowerCase((IF Truthy(q) THEN q ELSE JStr("false")).lit) = "true"

\* the gate without the test of payload.subscribed
Gate_NoTierTest(detail, auth) ==
    LET payload == verifyJWT(auth)
    IN IF ~detail THEN [status |-> 0, body |-> JNull, forwardApiKey |-> FALSE]
       ELSE IF ~Truthy(payload)
       THEN [status |-> 401, body |-> ErrUnauthorized, forwardApiKey |-> FALSE]
       ELSE [status |-> 0, body |-> JNull, forwardApiKey |-> TRUE]

\* lines 236-249: the gate.  status 0 lets the request through to the fetch.
Gate(detail, auth) ==
    LET payload == verifyJWT(auth)
    IN IF ~detail THEN [status |-> 0, body |-> JNull, forwardApiKey |-> FALSE]
       ELSE IF ~Truthy(payload)
       THEN [status |-> 401, body |-> ErrUnauthorized, forwardApiKey |-> FALSE]
       ELSE IF ~Truthy(GetProp(payload, "subscribed"))
       THEN [status |-> 403, body |-> Teaser, forwardApiKey |-> FALSE]
       ELSE [status |-> 0, body |-> JNull, forwardApiKey |-> TRUE]

\* GET /api/prediction/:matchId, lines 231-260, up to `await fetchPredictorMatch`
\* and through it when the call returns without waiting
SingleMatch(matchId, q, auth) ==
    /\ nreq < MaxRequests
    /\ Dispatch("GET", "/api/prediction/:matchId") = "singleMatch"
    /\ LET r == nreq + 1
           detail == DetailFlag(q)
           rq == [NoRequest EXCEPT !.kind = "single", !.matchId = matchId,
                                   !.detail = detail, !.auth = auth]
           gate == Gate(detail, auth)
           call == CallStart(cache, matchId, detail, gate.forwardApiKey, now)
           key == cacheKey(matchId, detail)
       IN /\ nreq' = r
          /\ IF DetailThrows(q)
             THEN /\ req' = [req EXCEPT ![r] = Respond([rq EXCEPT !.detail = FALSE], 500, ErrServer)]
                  /\ UNCHANGED <<cache, upstream, cacheLog>>
             ELSE IF gate.status # 0
             THEN /\ req' = [req EXCEPT ![r] = Respond(rq, gate.status, gate.body)]
                  /\ UNCHANGED <<cache, upstream, cacheLog>>
             ELSE /\ cache' = getCacheStore(cache, key, now)
                  /\ cacheLog' = cacheLog \cup {<<r, "get", key>>}
                  /\ upstream' = IF call.hit THEN upstream
                                 ELSE upstream \cup {UpstreamRequest(r, 1, call, apiKey)}
                  /\ req' = [req EXCEPT ![r] =
                        IF call.hit THEN Resume([rq EXCEPT !.calls = <<call>>], now)
                        ELSE [rq EXCEPT !.calls = <<call>>]]
    /\ UNCHANGED <<now, apiKey, lookup>>

\* line 207: matchIds.map(id => fetchPredictorMatch(id, false, false)), the
\* calls started one after the other, each on the cache the previous one left
RECURSIVE StartCalls(_, _, _)
StartCalls(ids, c, t) ==
    IF ids = <<>> THEN [cache |-> c, calls |-> <<>>]
    ELSE LET call == CallStart(c, Head(ids), FALSE, FALSE, t)
             rest == StartCalls(Tail(ids), getCacheStore(c, cacheKey(Head(ids), FALSE), t), t)
         IN [cache |-> rest.cache, calls |-> <<call>> \o rest.calls]

\* the handler registered on line 204, run on a request
Aggregator ==
    /\ nreq < MaxRequests
    /\ LET r == nreq + 1
           started == StartCalls(PREDICTOR_MATCH_IDS, cache, now)
           rq == [NoRequest EXCEPT !.kind = "aggregator", !.calls = started.calls]
       IN /\ nreq' = r
          /\ cache' = started.cache
          /\ cacheLog' = cacheLog \cup
                {<<r, "get", cacheKey(PREDICTOR_MATCH_IDS[i], FALSE)>> :
                    i \in 1..Len(PREDICTOR_MATCH_IDS)}
          /\ upstream' = upstream \cup
                {UpstreamRequest(r, i, started.calls[i], apiKey) :
                    i \in {j \in 1..Len(started.calls) : ~started.calls[j].hit}}
          /\ req' = [req EXCEPT ![r] = Resume(rq, now)]
    /\ UNCHANGED <<now, apiKey, lookup>>

\* the handler registered on line 28
SampleHandler(rq, t) == Respond(rq, 200, Sample(t))

\* GET /api/predictions as the router serves it
GetPredictions ==
    /\ nreq < MaxRequests
    /\ Dispatch("GET", "/api/predictions") = "sample"
    /\ nreq' = nreq + 1
    /\ req' = [req EXCEPT ![nreq + 1] =
                  SampleHandler([NoRequest EXCEPT !.kind = "predictions"], now)]
    /\ UNCHANGED <<now, cache, upstream, cacheLog, apiKey, lookup>>

InFlight(r, i, pc) ==
    /\ r \in 1..MaxRequests
    /\ i \in 1..Len(req[r].calls)
    /\ req[r].calls[i].pc = pc

Settle(r, i, call) ==
    req' = [req EXCEPT ![r] = Resume([req[r] EXCEPT !.calls[i] = call], now)]

\* the predictor's status line and headers arrive: fetch resolves
UpstreamStatus(r, i, ok) ==
    /\ InFlight(r, i, "fetch")
    /\ Settle(r, i, CallOnStatus(req[r].calls[i], ok))
    /\ UNCHANGED <<now, cache, nreq, upstream, cacheLog, apiKey, lookup>>

\* connection refused, reset, DNS failure: fetch rejects
UpstreamError(r, i) ==
    /\ InFlight(r, i, "fetch")
    /\ Settle(r, i, CallOnError(req[r].calls[i]))
    /\ UNCHANGED <<now, cache, nreq, upstream, cacheLog, apiKey, lookup>>

\* line 180: the timer fires, controller.abort() rejects the pending fetch
TimerDue(call, t) == call.timer /\ t >= call.issuedAt + FetchTimeoutSec

AbortTimer(r, i) ==
    /\ InFlight(r, i, "fetch")
    /\ TimerDue(req[r].calls[i], now)
    /\ Settle(r, i, CallOnError(req[r].calls[i]))
    /\ UNCHANGED <<now, cache, nreq, upstream, cacheLog, apiKey, lookup>>

\* the body arrives and decodes: lines 188-191
UpstreamJson(r, i, json) ==
    /\ InFlight(r, i, "json")
    /\ LET call == req[r].calls[i]
           key == cacheKey(call.matchId, call.detail)
       IN /\ cache' = setCache(cache, key, json, FetchTtlSec, now)
          /\ cacheLog' = cacheLog \cup {<<r, "set", key>>}
          /\ Settle(r, i, CallOnJson(call, json))
    /\ UNCHANGED <<now, nreq, upstream, apiKey, lookup>>

\* the body does not decode as JSON, or the connection breaks while it is read
UpstreamBadBody(r, i) ==
    /\ InFlight(r, i, "json")
    /\ Settle(r, i, CallOnError(req[r].calls[i]))
    /\ UNCHANGED <<now, cache, nreq, upstream, cacheLog, apiKey, lookup>>

\* time passes; an armed timer fires when it is due, so time does not pass it
\* the response has gone out and the request object is dropped
Close(r) ==
    /\ r \in 1..MaxRequests
    /\ req[r].sent > 0
    /\ req' = [req EXCEPT ![r] = NoRequest]
    /\ upstream' = {u \in upstream : u.req # r}
    /\ cacheLog' = {l \in cacheLog : l[1] # r}
    /\ UNCHANGED <<now, cache, nreq, apiKey, lookup>>

\* The clock is read at three instants: the start, one fetch timeout later,
\* and when a cache TTL has passed as well.  A timer that is armed fires when
\* it is due, so the clock does not move past the deadline of an armed timer.
Instants == {0, FetchTimeoutSec, FetchTimeoutSec + FetchTtlSec + 1}

Tick(d) ==
    /\ d > now
    /\ \A e \in Instants : e > now => d <= e
    /\ \A r \in 1..MaxRequests : \A i \in 1..Len(req[r].calls) :
          req[r].calls[i].timer => d <= req[r].calls[i].issuedAt + FetchTimeoutSec
    /\ now' = d
    /\ UNCHANGED <<cache, req, nreq, upstream, cacheLog, apiKey, lookup>>

Next ==
    \/ \E matchId \in RequestMatchIds, q \in DetailQueries :
          \E auth \in (IF DetailFlag(q) THEN AuthHeaders ELSE PublicAuthHeaders) :
             SingleMatch(matchId, q, auth)
    \/ Aggregator
    \/ GetPredictions
    \/ \E r \in 1..MaxRequests, i \in 1..Len(PREDICTOR_MATCH_IDS), ok \in BOOLEAN :
          UpstreamStatus(r, i, ok)
    \/ \E r \in 1..MaxRequests, i \in 1..Len(PREDICTOR_MATCH_IDS) : UpstreamError(r, i)
    \/ \E r \in 1..MaxRequests, i \in 1..Len(PREDICTOR_MATCH_IDS) : AbortTimer(r, i)
    \/ \E r \in 1..MaxRequests, i \in 1..Len(PREDICTOR_MATCH_IDS), json \in Payloads :
          UpstreamJson(r, i, json)
    \/ \E r \in 1..MaxRequests, i \in 1..Len(PREDICTOR_MATCH_IDS) : UpstreamBadBody(r, i)
    \/ \E r \in 1..MaxRequests : Close(r)
    \/ \E d \in Instants : Tick(d)

Spec == Init /\ [][Next]_vars

----------------------------------------------------------------------------
(* The single-match handler under the event loop's guarantees: a timer     *)
(* that is due fires, and time passes.  The predictor owes nothing: it may *)
(* answer, fail, or fall silent at any point.  Here the clock also stops   *)
(* at every armed deadline, so that every armed timer comes due.           *)

Deadlines ==
    UNION {{req[r].calls[i].issuedAt + FetchTimeoutSec :
              i \in {j \in 1..Len(req[r].calls) : req[r].calls[j].timer}} :
           r \in 1..MaxRequests}

TickToNext(d) ==
    /\ d > now
    /\ \A e \in Deadlines \cup {i \in Instants : i > now} : d <= e
    /\ now' = d
    /\ UNCHANGED <<cache, req, nreq, upstream, cacheLog, apiKey, lookup>>

SingleNext ==
    \/ \E matchId \in RequestMatchIds, q \in DetailQueries :
          \E auth \in (IF DetailFlag(q) THEN AuthHeaders ELSE PublicAuthHeaders) :
             SingleMatch(matchId, q, auth)
    \/ \E r \in 1..MaxRequests, ok \in BOOLEAN : UpstreamStatus(r, 1, ok)
    \/ \E r \in 1..MaxRequests : UpstreamError(r, 1)
    \/ \E r \in 1..MaxRequests : AbortTimer(r, 1)
    \/ \E r \in 1..MaxRequests, json \in Payloads : UpstreamJson(r, 1, json)
    \/ \E r \in 1..MaxRequests : UpstreamBadBody(r, 1)
    \/ \E r \in 1..MaxRequests : Close(r)
    \/ \E d \in Deadlines \cup Instants : TickToNext(d)

FairSpec ==
    /\ Init
    /\ [][SingleNext]_vars
    /\ WF_vars(\E d \in Deadlines \cup Instants : TickToNext(d))
    /\ \A r \in 1..MaxRequests : WF_vars(AbortTimer(r, 1))

----------------------------------------------------------------------------
(* The cache on its own: setCache and getCache called directly, with any   *)
(* TTL, while time passes a second at a time.                              *)

CacheKeys == {cacheKey(<<"m1">>, FALSE), cacheKey(<<"m1">>, TRUE)}

CacheInit ==
    /\ now = 0
    /\ cache = <<>>
    /\ req = [r \in 1..MaxRequests |-> NoRequest]
    /\ nreq = 0
    /\ upstream = {}
    /\ cacheLog = {}
    /\ apiKey = FALSE
    /\ lookup = NoLookup

\* the log keeps, for each key, the arguments and the time of the latest
\* setCache, and whether the key had been written before (2) or not (1)
Written(log, key) == {l \in log : l[2] = "set" /\ l[3] = key}

CacheSet(key, value, ttlSec) ==
    /\ cache' = setCache(cache, key, value, ttlSec, now)
    /\ cacheLog' = (cacheLog \ Written(cacheLog, key)) \cup
          {<<IF Written(cacheLog, key) = {} THEN 1 ELSE 2, "set", key,
             [value |-> value, ttlSec |-> ttlSec, at |-> now]>>}
    /\ lookup' = NoLookup
    /\ UNCHANGED <<now, req, nreq, upstream, apiKey>>

CacheGet(key) ==
    /\ cache' = getCacheStore(cache, key, now)
    /\ lookup' = [done |-> TRUE, key |-> key, at |-> now,
                  had |-> key \in DOMAIN cache,
                  entry |-> IF key \in DOMAIN cache THEN cache[key] ELSE NoLookup.entry,
                  result |-> getCacheValue(cache, key, now),
                  kept |-> key \in DOMAIN cache']
    /\ UNCHANGED <<now, req, nreq, upstream, cacheLog, apiKey>>

CacheTick ==
    /\ now < MaxClock
    /\ now' = now + 1
    /\ lookup' = NoLookup
    /\ UNCHANGED <<cache, req, nreq, upstream, cacheLog, apiKey>>

CacheNext ==
    \/ \E key \in CacheKeys, value \in Payloads, ttlSec \in 0..MaxTtl :
          CacheSet(key, value, ttlSec)
    \/ \E key \in CacheKeys : CacheGet(key)
    \/ CacheTick

CacheSpec == CacheInit /\ [][CacheNext]_vars

----------------------------------------------------------------------------
(* Cache keys: single-match requests for match ids that contain the key's  *)
(* own separators, served by a predictor that answers each query with a    *)
(* payload naming the match id and the detail flag it was asked for, so    *)
(* that a payload tells which query it was fetched for.                    *)

KeyMatchIds ==
    { <<"A">>, <<"B">>,
      <<"A", ":", "detail", "=", "true">>,
      <<"A", ":", "detail", "=", "false">> }

PredictorAnswer(matchId, detail) ==
    JObj(<<JMember("matchId", JArray([i \in 1..Len(matchId) |-> JStr(matchId[i])])),
           JMember("detail", JBool(detail))>>)

KeyAnswer(r) ==
    IF Len(req[r].calls) = 1
    THEN PredictorAnswer(req[r].calls[1].matchId, req[r].calls[1].detail)
    ELSE JNull

KeyNext ==
    \/ \E matchId \in KeyMatchIds :
          \/ SingleMatch(matchId, JStr("true"), <<"bearer", " ", " ", "jwt_sub">>)
          \/ SingleMatch(matchId, JUndefined, <<>>)
    \/ \E r \in 1..MaxRequests, ok \in BOOLEAN : UpstreamStatus(r, 1, ok)
    \/ \E r \in 1..MaxRequests : UpstreamJson(r, 1, KeyAnswer(r))
    \/ \E r \in 1..MaxRequests : Close(r)
    \/ \E d \in Instants : Tick(d)

KeySpec == Init /\ [][KeyNext]_vars

----------------------------------------------------------------------------
(* Properties. *)

SingleRequests == {r \in 1..MaxRequests : req[r].kind = "single"}
AggregatorRequests == {r \in 1..MaxRequests : req[r].kind = "aggregator"}

\* request r made no fetchPredictorMatch call, sent nothing to the predictor
\* and made no call of getCache or setCache
Untouched(r) ==
    /\ req[r].calls = <<>>
    /\ \A u \in upstream : u.req # r
    /\ \A l \in cacheLog : l[1] # r

InvalidCredentials ==
    { <<>>, <<"Bearer", " ", "garbage">>, <<"Bearer", " ", "jwt_expired">>,
      <<"Bearer", " ", "jwt_badsig">> }
UnsubscribedCredentials == { <<"Bearer", " ", "jwt_unsub">> }
SubscribedCredentials == { <<"bearer", " ", " ", "jwt_sub">>, <<"jwt_sub">> }

\* C1: a detail=true request whose credential is missing or does not verify
\* is answered 401, one whose credential verifies with subscribed false is
\* answered 403 with a teaser field, and neither reaches the predictor or
\* the cache.
C1_GateRefusals ==
    \A r \in SingleRequests :
        req[r].detail =>
            /\ req[r].auth \in InvalidCredentials =>
                  /\ req[r].sent = 1 /\ req[r].status = 401
                  /\ Untouched(r)
            /\ req[r].auth \in UnsubscribedCredentials =>
                  /\ req[r].sent = 1 /\ req[r].status = 403
                  /\ HasProp(req[r].body, "teaser")
                  /\ Untouched(r)

C1_Witness ==
    /\ req[1].kind = "single" /\ req[1].detail
    /\ req[1].auth = <<"Bearer", " ", "jwt_expired">> /\ req[1].status = 401
    /\ req[2].kind = "single" /\ req[2].detail
    /\ req[2].auth = <<"Bearer", " ", "jwt_unsub">> /\ req[2].status = 403
    /\ HasProp(req[2].body, "teaser")

\* C2: a request to the predictor carries x-api-key only if it was made for
\* a single-match request with detail=true whose credential verified with
\* subscribed true, and PREDICTOR_API_KEY is set.
C2_PrivilegedHeader ==
    \A u \in upstream :
        u.xApiKey =>
            /\ apiKey
            /\ req[u.req].kind = "single"
            /\ req[u.req].detail /\ u.detail
            /\ req[u.req].auth \in SubscribedCredentials

C2_Witness ==
    /\ \E u \in upstream : u.xApiKey
    /\ \E u \in upstream : req[u.req].kind = "aggregator" /\ ~u.xApiKey

\* C3: every single-match request gets exactly one response: never two, and
\* a request that has none yet eventually gets one.
C3_ExactlyOneResponse ==
    \A r \in 1..MaxRequests :
        /\ [](req[r].sent <= 1)
        /\ (req[r].kind = "single" /\ req[r].sent = 0) ~> (req[r].sent = 1)

\* C4: GET /api/predictions, as the router serves it, answers with the
\* successful payloads of one predictor fetch per configured match id.
C4_RoutedPredictions ==
    \A r \in 1..MaxRequests :
        req[r].kind = "predictions" /\ req[r].sent > 0 =>
            /\ Len(req[r].calls) = Len(PREDICTOR_MATCH_IDS)
            /\ req[r].body = JArray(FilterNotNull(Results(req[r])))

Failed(rq) == {i \in 1..Len(rq.calls) : rq.calls[i].outcome = "failed"}
Fallbacks == {Fallback(t) : t \in Instants}

\* C5: when M of the aggregator's N fetches fail, its response has exactly
\* N-M entries if M < N and is the fallback set if M = N.
C5_NMinusM ==
    \A r \in AggregatorRequests :
        req[r].sent > 0 =>
            LET N == Len(req[r].calls)
                M == Cardinality(Failed(req[r]))
            IN /\ M < N => /\ req[r].body.type = "array"
                           /\ req[r].body \notin Fallbacks
                           /\ Len(req[r].body.items) = N - M
               /\ M = N => req[r].body \in Fallbacks

\* C6: whatever its fetches end in, the aggregator answers 200 with a
\* non-empty array.
C6_AlwaysArray ==
    \A r \in AggregatorRequests :
        req[r].sent > 0 =>
            /\ req[r].sent = 1
            /\ req[r].status = 200
            /\ req[r].body.type = "array"
            /\ Len(req[r].body.items) > 0

C6_Witness ==
    \E r \in AggregatorRequests :
        /\ req[r].sent = 1
        /\ Failed(req[r]) = {1, 2}
        /\ req[r].body \in Fallbacks

\* C7: a call that missed the cache has returned by FetchTimeoutSec seconds
\* after it sent its request.
C7_TimeoutBound ==
    \A r \in 1..MaxRequests : \A i \in 1..Len(req[r].calls) :
        req[r].calls[i].pc # "done" => now - req[r].calls[i].issuedAt <= FetchTimeoutSec

\* C8: a call that ended in a non-success status, a transport error, the
\* abort or a body that did not decode returned null, and the single-match
\* handler answered it with the one 502 response.
C8_UniformFailure ==
    \A r \in 1..MaxRequests : \A i \in 1..Len(req[r].calls) :
        req[r].calls[i].outcome = "failed" =>
            /\ req[r].calls[i].pc = "done"
            /\ req[r].calls[i].result = JNull
            /\ req[r].kind = "single" =>
                  /\ req[r].sent = 1
                  /\ req[r].status = 502
                  /\ req[r].body = ErrUnavailable

C8_Witness ==
    \A r \in 1..MaxRequests :
        /\ req[r].kind = "single" /\ Len(req[r].calls) = 1
        /\ req[r].calls[1].outcome = "failed" /\ req[r].status = 502
        /\ req[r].calls[1].issuedAt = 0 /\ now = FetchTimeoutSec

\* C9: a single-match request that passed the gate and whose fetch got a
\* success status with JSON body p is answered 200 with p.
C9_PayloadUnmodified ==
    \A r \in SingleRequests : \A i \in 1..Len(req[r].calls) :
        req[r].calls[i].outcome = "ok" =>
            /\ req[r].sent = 1
            /\ req[r].status = 200
            /\ req[r].body = req[r].calls[i].result

\* C10: getCache(key) returns the stored value and keeps the entry when
\* now - ts <= ttlSec; otherwise it returns null and the key is absent
\* afterwards, exactly as for a key that was never written.
C10_GetCache ==
    lookup.done =>
        IF lookup.had /\ lookup.at - lookup.entry.ts <= lookup.entry.ttlSec
        THEN /\ lookup.result = lookup.entry.value
             /\ lookup.kept
             /\ cache[lookup.key] = lookup.entry
        ELSE /\ lookup.result = JNull
             /\ ~lookup.kept
             /\ lookup.key \notin DOMAIN cache

C10_Witness ==
    /\ lookup.done /\ lookup.had
    /\ lookup.at - lookup.entry.ts = lookup.entry.ttlSec + 1
    /\ lookup.entry.value = PickHome
    /\ \E k \in DOMAIN cache : k # lookup.key

\* C11: getCache(k) called while now - (time of the latest setCache(k, v, ttl))
\* <= ttl returns the v of that latest setCache, and the entry is exactly
\* the value, the time and the TTL of that latest write, whatever was
\* written to k before.
C11_SetThenGet ==
    lookup.done =>
        \A l \in Written(cacheLog, lookup.key) :
            lookup.at - l[4].at <= l[4].ttlSec =>
                /\ lookup.result = l[4].value
                /\ lookup.key \in DOMAIN cache
                /\ cache[lookup.key] =
                      [ts |-> l[4].at, ttlSec |-> l[4].ttlSec, value |-> l[4].value]

\* a key written with a TTL of 0, looked up after it expired, written again
\* later with another value and then read back
C11_Witness ==
    /\ lookup.done /\ lookup.result = PickAway
    /\ lookup.entry.ts > 0 /\ lookup.at > lookup.entry.ts
    /\ \E l \in Written(cacheLog, lookup.key) : l[1] = 2 /\ l[4].ttlSec = MaxTtl

\* C12: the cache key is injective in (matchId, detail), also for match ids
\* that contain ':' or 'detail=': two cache accesses use the same key exactly
\* when their requests agree in matchId and detail, and a request answered
\* 200 gets the payload fetched for its own matchId and detail, never one
\* cached for another query.
C12_KeyInjective ==
    /\ \A a \in KeyMatchIds, b \in KeyMatchIds, d \in BOOLEAN, e \in BOOLEAN :
          (cacheKey(a, d) = cacheKey(b, e)) <=> (a = b /\ d = e)
    /\ \A l1 \in cacheLog, l2 \in cacheLog :
          (l1[3] = l2[3]) <=>
              /\ req[l1[1]].matchId = req[l2[1]].matchId
              /\ req[l1[1]].detail = req[l2[1]].detail
    /\ \A r \in SingleRequests :
          req[r].sent = 1 /\ req[r].status = 200 =>
              req[r].body = PredictorAnswer(req[r].matchId, req[r].detail)

\* the payload of (A, detail=true) is cached, and the request for
\* ("A:detail=true", detail=false) has fetched and cached its own; a third
\* key is not involved
C12_Witness ==
    /\ req[1].matchId = <<"A">> /\ req[1].detail /\ req[1].status = 200
    /\ req[2].matchId = <<"A", ":", "detail", "=", "true">> /\ ~req[2].detail
    /\ req[2].status = 200 /\ req[2].calls[1].outcome = "ok"
    /\ DOMAIN cache = {cacheKey(req[1].matchId, TRUE), cacheKey(req[2].matchId, FALSE)}
    /\ Cardinality(DOMAIN cache) = 2

ConfiguredKeys ==
    {cacheKey(PREDICTOR_MATCH_IDS[i], d) : i \in 1..Len(PREDICTOR_MATCH_IDS), d \in BOOLEAN}

\* C13: every key in the cache is the key of a configured match id with
\* detail false or true, so the cache never holds more than twice as many
\* entries as there are configured match ids.
C13_BoundedKeyspace ==
    /\ DOMAIN cache \subseteq ConfiguredKeys
    /\ Cardinality(DOMAIN cache) <= 2 * Len(PREDICTOR_MATCH_IDS)

\* the calls that run their getCache in this step, and the calls whose
\* setCache runs in this step
Reading(r, i) == req[r].calls = <<>> /\ i \in 1..Len(req'[r].calls)
Writing(r, i) ==
    /\ i \in 1..Len(req[r].calls)
    /\ req[r].calls[i].pc = "json" /\ req'[r].calls[i].outcome = "ok"

\* C14: whichever requests are being handled, a getCache(k) that runs while
\* the cache holds an unexpired entry for k returns the value of that entry,
\* which is the whole record of the latest setCache(k, v): value v, the time
\* of the write and its TTL, installed in one step.
C14_Linearizable ==
    [][\A r \in 1..MaxRequests : \A i \in 1..Len(PREDICTOR_MATCH_IDS) :
          /\ Reading(r, i) =>
                LET call == req'[r].calls[i]
                    key == cacheKey(call.matchId, call.detail)
                IN key \in DOMAIN cache /\ now - cache[key].ts <= cache[key].ttlSec
                      => call.cached = cache[key].value
          /\ Writing(r, i) =>
                LET call == req'[r].calls[i]
                    key == cacheKey(call.matchId, call.detail)
                IN /\ key \in DOMAIN cache'
                   /\ cache'[key] = [ts |-> now, ttlSec |-> FetchTtlSec, value |-> call.result]
                   /\ \A k \in DOMAIN cache \ {key} :
                         k \in DOMAIN cache' /\ cache'[k] = cache[k]]_vars

\* the aggregator has cached the payload of m1 and still waits for m2, and a
\* single-match request for m1 that started meanwhile has read that payload
C14_Witness ==
    /\ req[1].kind = "aggregator"
    /\ req[1].calls[1].outcome = "ok" /\ req[1].calls[1].result = PickAway
    /\ req[1].calls[2].pc = "fetch"
    /\ req[2].kind = "single" /\ req[2].matchId = <<"m1">>
    /\ req[2].calls # <<>>
    /\ req[2].calls[1].cached = PickAway /\ req[2].calls[1].hit

\* C15: verifyJWT returns null for the missing header, the malformed token,
\* the expired token and the token with a bad signature alike, and any two
\* detail=true requests carrying any of the four get the same response:
\* status 401 and the same body.
C15_InvalidAlike ==
    /\ \A h \in InvalidCredentials : verifyJWT(h) = JNull
    /\ \A r1 \in SingleRequests, r2 \in SingleRequests :
          /\ req[r1].detail /\ req[r1].auth \in InvalidCredentials
          /\ req[r2].detail /\ req[r2].auth \in InvalidCredentials
          => /\ req[r1].sent = 1 /\ req[r2].sent = 1
             /\ req[r1].status = 401 /\ req[r2].status = req[r1].status
             /\ req[r1].body = ErrUnauthorized /\ req[r2].body = req[r1].body

C15_Witness ==
    /\ req[1].kind = "single" /\ req[1].detail /\ req[1].auth = <<>>
    /\ req[2].kind = "single" /\ req[2].detail
    /\ req[2].auth = <<"Bearer", " ", "jwt_badsig">>
    /\ req[1].status = 401 /\ req[2].body = req[1].body

\* C16: a call whose getCache found an unexpired entry holding any value
\* other than null (false included) returns that value, sends nothing to the
\* predictor and does not write the entry again.
C16_HitServedFromCache ==
    \A r \in 1..MaxRequests : \A i \in 1..Len(req[r].calls) :
        req[r].calls[i].cached # JNull =>
            /\ req[r].calls[i].outcome = "hit"
            /\ req[r].calls[i].result = req[r].calls[i].cached
            /\ \A u \in upstream : ~(u.req = r /\ u.idx = i)

CallKey(call) == cacheKey(call.matchId, call.detail)

\* the calls that end in failure in this step
Failing(r, i) ==
    /\ i \in 1..Len(req[r].calls)
    /\ req[r].calls[i].pc # "done" /\ req'[r].calls[i].outcome = "failed"

\* C17: an entry appears or changes only in the step in which a fetch for
\* its key got its JSON body after a success status, and it then holds that
\* body with a TTL of FetchTtlSec; an entry disappears only in a step that
\* looks its key up after it expired; a step in which a fetch fails changes
\* nothing in the cache.
C17_CacheFrame ==
    [][/\ \A k \in DOMAIN cache' :
             k \notin DOMAIN cache \/ cache'[k] # cache[k] =>
                 \E r \in 1..MaxRequests : \E i \in 1..Len(PREDICTOR_MATCH_IDS) :
                     /\ Writing(r, i)
                     /\ CallKey(req'[r].calls[i]) = k
                     /\ cache'[k] = [ts |-> now, ttlSec |-> FetchTtlSec,
                                     value |-> req'[r].calls[i].result]
       /\ \A k \in DOMAIN cache \ DOMAIN cache' :
             /\ now - cache[k].ts > cache[k].ttlSec
             /\ \E r \in 1..MaxRequests : \E i \in 1..Len(PREDICTOR_MATCH_IDS) :
                   Reading(r, i) /\ CallKey(req'[r].calls[i]) = k
       /\ \A r \in 1..MaxRequests : \A i \in 1..Len(PREDICTOR_MATCH_IDS) :
             Failing(r, i) => cache' = cache]_vars

\* the aggregator cached m1 and its fetch of m2 failed; after the TTL a
\* request for m1 looked the entry up and removed it
C17_Witness ==
    /\ req[1].kind = "aggregator"
    /\ req[1].calls[1].outcome = "ok" /\ req[1].calls[2].outcome = "failed"
    /\ req[2].kind = "single" /\ req[2].matchId = <<"m1">> /\ ~req[2].detail
    /\ req[2].calls # <<>> /\ req[2].calls[1].pc = "fetch"
    /\ req[2].calls[1].issuedAt > FetchTtlSec
    /\ cache = <<>>

\* C18: an aggregator request has one call per configured match id, in the
\* configured order, each with detail false and no API key, all started at
\* the same instant; every call that missed the cache has sent its request to
\* the predictor at that instant; and the response is out only when
\* every call has returned.
C18_StartAllWaitAll ==
    \A r \in AggregatorRequests :
        /\ Len(req[r].calls) = Len(PREDICTOR_MATCH_IDS)
        /\ \A i \in 1..Len(req[r].calls) :
              /\ req[r].calls[i].matchId = PREDICTOR_MATCH_IDS[i]
              /\ ~req[r].calls[i].detail /\ ~req[r].calls[i].forwardApiKey
              /\ req[r].calls[i].issuedAt = req[r].calls[1].issuedAt
              /\ ~req[r].calls[i].hit =>
                    \E u \in upstream :
                        /\ u.req = r /\ u.idx = i /\ ~u.xApiKey /\ ~u.detail
                        /\ u.matchId = PREDICTOR_MATCH_IDS[i]
        /\ req[r].sent > 0 => \A i \in 1..Len(req[r].calls) : req[r].calls[i].pc = "done"
        /\ req[r].sent <= 1

\* the fetch of m1 has failed while the fetch of m2 is still with the
\* predictor, and the aggregator has not answered
C18_Witness ==
    \E r \in AggregatorRequests :
        /\ req[r].calls[1].outcome = "failed"
        /\ req[r].calls[2].pc = "fetch"
        /\ Cardinality({u \in upstream : u.req = r}) = 2
        /\ req[r].sent = 0

\* the calls whose result is not null, and the k-th of them in input order
Survivors(rq) == {i \in 1..Len(rq.calls) : rq.calls[i].result # JNull}
NthSurvivor(rq, k) ==
    CHOOSE i \in Survivors(rq) : Cardinality({j \in Survivors(rq) : j <= i}) = k

\* C19: when at least one call of the aggregator returned a payload, the
\* response is the array of the non-null results in the order of their
\* match ids in PREDICTOR_MATCH_IDS, whenever each of them arrived.
C19_InputOrder ==
    \A r \in AggregatorRequests :
        req[r].sent > 0 /\ Survivors(req[r]) # {} =>
            /\ req[r].body.type = "array"
            /\ Len(req[r].body.items) = Cardinality(Survivors(req[r]))
            /\ \A k \in 1..Len(req[r].body.items) :
                  /\ req[r].body.items[k] = req[r].calls[NthSurvivor(req[r], k)].result
                  /\ req[r].calls[NthSurvivor(req[r], k)].matchId
                        = PREDICTOR_MATCH_IDS[NthSurvivor(req[r], k)]

\* the payload of m2 arrived and was cached before that of m1, and the
\* response lists m1's payload first
C19_Witness ==
    \E r \in AggregatorRequests :
        /\ req[r].sent = 1
        /\ req[r].calls[1].outcome = "ok" /\ req[r].calls[2].outcome = "ok"
        /\ DOMAIN cache = {cacheKey(<<"m1">>, FALSE), cacheKey(<<"m2">>, FALSE)}
        /\ cache[cacheKey(<<"m2">>, FALSE)].ts < cache[cacheKey(<<"m1">>, FALSE)].ts
        /\ req[r].body = JArray(<<PickHome, PickAway>>)

\* the call (r, i) missed the cache and has fetched its payload
Fetched(r, i) ==
    /\ i \in 1..Len(req[r].calls)
    /\ ~req[r].calls[i].hit /\ req[r].calls[i].outcome = "ok"

\* C20: every call that missed the cache sent its own request to the
\* predictor, also when another call for the same key was already waiting;
\* and when the payload of one arrives after the payload of another for the
\* same key, the arriving call returns its own payload, the other call keeps
\* the payload it returned, and the entry holds the arriving payload with
\* the time of its arrival, whichever call was started first.
C20_LastWriterWins ==
    [][\A r1 \in 1..MaxRequests : \A i \in 1..Len(PREDICTOR_MATCH_IDS) :
          /\ i \in 1..Len(req'[r1].calls) /\ ~req'[r1].calls[i].hit =>
                \E u \in upstream' : u.req = r1 /\ u.idx = i
          /\ \A r2 \in 1..MaxRequests \ {r1} : \A j \in 1..Len(PREDICTOR_MATCH_IDS) :
                /\ Writing(r1, i) /\ ~req[r1].calls[i].hit
                /\ Fetched(r2, j)
                /\ CallKey(req[r2].calls[j]) = CallKey(req[r1].calls[i])
                => /\ req'[r2].calls[j].result = req[r2].calls[j].result
                   /\ cache'[CallKey(req[r1].calls[i])] =
                         [ts |-> now, ttlSec |-> FetchTtlSec,
                          value |-> req'[r1].calls[i].result]
                   /\ req[r1].kind = "single" /\ Truthy(req'[r1].calls[i].result)
                         => /\ req'[r1].status = 200
                            /\ req'[r1].body = req'[r1].calls[i].result]_vars

\* two requests for (m1, detail=false) both missed; the second one's payload
\* arrived first, and the entry holds the payload of the first one, which
\* arrived last
C20_Witness ==
    /\ req[1].kind = "single" /\ req[2].kind = "single"
    /\ req[1].calls # <<>> /\ req[2].calls # <<>>
    /\ CallKey(req[1].calls[1]) = cacheKey(<<"m1">>, FALSE)
    /\ CallKey(req[2].calls[1]) = cacheKey(<<"m1">>, FALSE)
    /\ req[1].calls[1].issuedAt < req[2].calls[1].issuedAt
    /\ req[1].calls[1].outcome = "ok" /\ req[2].calls[1].outcome = "ok"
    /\ req[1].body = PickHome /\ req[2].body = PickAway
    /\ cache[cacheKey(<<"m1">>, FALSE)].value = PickHome
    /\ cache[cacheKey(<<"m1">>, FALSE)].ts > req[2].calls[1].issuedAt

====
